---- MODULE Spec2Model ----
(***************************************************************************)
(* Scene timing, image alignment and video composition of                  *)
(* src/apps/api/routes/video.py.                                           *)
(*                                                                         *)
(* Times are Python floats in the source.  They are modelled as exact     *)
(* rationals [n, d] in lowest terms (d > 0); None is the record with       *)
(* d = 0.  SpecTimingsFp repeats the timing computation with every float   *)
(* operation rounded to a significand of Precision bits.                   *)
(* A script is a sequence of lines; a line is blank, a narration           *)
(* line with a number of words, or a "Scene N" marker with an optional     *)
(* parenthesised time range whose two sides are kept as the parts that     *)
(* str.split(':') yields (Empty for a part that int() rejects).            *)
(***************************************************************************)
EXTENDS Integers, Sequences, FiniteSets, TLC

(* ----------------------------- bounds ---------------------------------- *)
MaxBlocks == 2
MaxScene == 2
MaxWords == 2
MaxDur == 2
MaxTag == 4
MaxImages == 3
PipeScenes == 2
PipeImages == 2
Precision == 8
MaxTmpNames == 4
MaxIds == 2

(* ----------------------------- rationals ------------------------------- *)
RECURSIVE GCD(_, _)
GCD(a, b) == IF b = 0 THEN a ELSE GCD(b, a % b)

Abs(x) == IF x < 0 THEN -x ELSE x

Rat(n, d) ==
    LET g == GCD(Abs(n), d)
    IN  [n |-> n \div g, d |-> d \div g]

None == [n |-> 0, d |-> 0]
IsNone(t) == t.d = 0
Int2R(i) == [n |-> i, d |-> 1]
Zero == Int2R(0)

RAdd(a, b) == Rat(a.n * b.d + b.n * a.d, a.d * b.d)
RSub(a, b) == Rat(a.n * b.d - b.n * a.d, a.d * b.d)
RMul(a, b) == Rat(a.n * b.n, a.d * b.d)
RLess(a, b) == a.n * b.d < b.n * a.d
RLeq(a, b) == a.n * b.d <= b.n * a.d

(* ------------------------- floating point ------------------------------ *)
\* A Python float is an IEEE binary64 value: every arithmetic operation
\* returns the exact result rounded to the nearest value with a 53-bit
\* significand, ties to even.  FRound is that rounding with a significand of
\* Precision bits; exponents are unbounded.
RECURSIVE Pow2(_)
Pow2(k) == IF k = 0 THEN 1 ELSE 2 * Pow2(k - 1)

Pow2R(k) == IF k >= 0 THEN Int2R(Pow2(k)) ELSE Rat(1, Pow2(-k))

\* the k with 2^(Precision-1) <= x * 2^k < 2^Precision, for x > 0
RECURSIVE Normalize(_, _)
Normalize(x, k) ==
    LET y == RMul(x, Pow2R(k))
    IN  IF RLess(y, Int2R(Pow2(Precision - 1))) THEN Normalize(x, k + 1)
        ELSE IF RLeq(Int2R(Pow2(Precision)), y) THEN Normalize(x, k - 1)
        ELSE k

RoundHalfEven(y) ==
    LET q == y.n \div y.d
        r == y.n % y.d
    IN  IF 2 * r > y.d \/ (2 * r = y.d /\ q % 2 = 1) THEN q + 1 ELSE q

FRound(x) ==
    IF x.n = 0 THEN Zero
    ELSE LET a == Rat(Abs(x.n), x.d)
             k == Normalize(a, 0)
             m == RoundHalfEven(RMul(a, Pow2R(k)))
             v == RMul(Int2R(m), Pow2R(-k))
         IN  IF x.n < 0 THEN Rat(-v.n, v.d) ELSE v

FAdd(a, b) == FRound(RAdd(a, b))
FSub(a, b) == FRound(RSub(a, b))
FMul(a, b) == FRound(RMul(a, b))
FDiv(a, b) == FRound(Rat(a.n * b.d, a.d * b.n))

(* ----------------------------- script text ----------------------------- *)
Empty == -1
Absent == << >>

BlankLine == [kind |-> "blank", num |-> 0, start_str |-> Absent, end_str |-> Absent, words |-> 0]
TextLine(w) == [kind |-> "text", num |-> 0, start_str |-> Absent, end_str |-> Absent, words |-> w]
Marker(k, s, e) == [kind |-> "marker", num |-> k, start_str |-> s, end_str |-> e, words |-> 0]

(* the time ranges a marker is tried with: none, two well-formed ranges,   *)
(* "1:2:3-0:10" (start is not M:SS) and "0:10-0:" (end has an empty part)  *)
TimeRanges ==
    { <<Absent, Absent>>,
      <<<<0, 0>>, <<0, 10>>>>,
      <<<<0, 10>>, <<0, 25>>>>,
      <<<<1, 2, 3>>, <<0, 10>>>>,
      <<<<0, 10>>, <<0, Empty>>>> }

\* a scene of a script: its marker line and w words of narration (none, one
\* or MaxWords), written as one line, or as two lines with a blank line
\* between them
Blocks == [num : 1..MaxScene, range : TimeRanges, words : {0, 1, MaxWords}]
NoBlock == [num |-> 0, range |-> <<Absent, Absent>>, words |-> 0]

Narration(w) ==
    IF w = 0 THEN << >>
    ELSE IF w = 1 THEN <<TextLine(1)>>
    ELSE <<TextLine(1), BlankLine, TextLine(w - 1)>>

RECURSIVE BlockLines(_)
BlockLines(blocks) ==
    IF blocks = << >> THEN << >>
    ELSE LET b == Head(blocks)
         IN  IF b = NoBlock THEN BlockLines(Tail(blocks))
             ELSE <<Marker(b.num, b.range[1], b.range[2])>> \o Narration(b.words)
                  \o BlockLines(Tail(blocks))

\* a script of up to MaxBlocks scenes, with or without a line of text
\* before the first marker
ScriptOf(preamble, blocks) ==
    (IF preamble THEN <<TextLine(1)>> ELSE << >>) \o BlockLines(blocks)

RECURSIVE SeqsUpTo(_, _)
SeqsUpTo(S, n) ==
    IF n = 0 THEN {<< >>}
    ELSE LET shorter == SeqsUpTo(S, n - 1)
         IN  shorter \cup {Append(s, x) : s \in {t \in shorter : Len(t) = n - 1}, x \in S}

Durations == {Int2R(1), Int2R(MaxDur)}

\* calls outside the enumerated scripts and durations: two scenes of 1 and 2
\* words with 12.5 s of audio; three scenes of 10, 20 and 10 words with 40 s;
\* "Scene 1 (0:00-0:10)", "Scene 2 (0:10-0:25)" with 30 s; "Scene 1 (0:10-0:)",
\* "Scene 2 (0:25-0:)" with 30 s
ExampleCalls ==
    { [script |-> ScriptOf(FALSE, <<[num |-> 1, range |-> <<Absent, Absent>>, words |-> 1],
                                    [num |-> 2, range |-> <<Absent, Absent>>, words |-> 2]>>),
       duration |-> Rat(25, 2)],
      [script |-> ScriptOf(FALSE, <<[num |-> 1, range |-> <<Absent, Absent>>, words |-> 10],
                                    [num |-> 2, range |-> <<Absent, Absent>>, words |-> 20],
                                    [num |-> 3, range |-> <<Absent, Absent>>, words |-> 10]>>),
       duration |-> Int2R(40)],
      [script |-> ScriptOf(FALSE, <<[num |-> 1, range |-> <<<<0, 0>>, <<0, 10>>>>, words |-> 0],
                                    [num |-> 2, range |-> <<<<0, 10>>, <<0, 25>>>>, words |-> 0]>>),
       duration |-> Int2R(30)],
      [script |-> ScriptOf(FALSE, <<[num |-> 1, range |-> <<<<0, 10>>, <<0, Empty>>>>, words |-> 0],
                                    [num |-> 2, range |-> <<<<0, 25>>, <<0, Empty>>>>, words |-> 0]>>),
       duration |-> Int2R(30)] }

(* ------------------------ _parse_scene_timings ------------------------- *)
\* int(parts[0]) * 60 + int(parts[1]); int('') raises ValueError
PartsRaise(parts) == Len(parts) = 2 /\ (parts[1] = Empty \/ parts[2] = Empty)
PartsValue(parts) == Int2R(parts[1] * 60 + parts[2])

\* lines 84-95: the try block sets start_time, then end_time; an exception
\* leaves what was already assigned
ParseRange(start_str, end_str) ==
    IF start_str = Absent \/ end_str = Absent
    THEN [start_time |-> None, end_time |-> None]
    ELSE IF PartsRaise(start_str)
    THEN [start_time |-> None, end_time |-> None]
    ELSE LET st == IF Len(start_str) = 2 THEN PartsValue(start_str) ELSE None
         IN  IF Len(end_str) = 2 /\ ~PartsRaise(end_str)
             THEN [start_time |-> st, end_time |-> PartsValue(end_str)]
             ELSE [start_time |-> st, end_time |-> None]

\* lines 64-113: the scenes in the order of their markers; narration lines
\* before the first marker are dropped, blank lines are skipped
RECURSIVE ParseLines(_, _)
ParseLines(lines, acc) ==
    IF lines = << >> THEN acc
    ELSE LET line == Head(lines)
         IN  IF line.kind = "blank" THEN ParseLines(Tail(lines), acc)
             ELSE IF line.kind = "marker"
             THEN LET r == ParseRange(line.start_str, line.end_str)
                  IN  ParseLines(Tail(lines),
                        Append(acc, [number |-> line.num,
                                     start_time |-> r.start_time,
                                     end_time |-> r.end_time,
                                     words |-> 0]))
             ELSE IF acc = << >> THEN ParseLines(Tail(lines), acc)
             ELSE ParseLines(Tail(lines),
                    [acc EXCEPT ![Len(acc)].words = @ + line.words])

\* scene_content: a dict keyed by scene number, a later marker with the
\* same number overwrites the earlier one
scene_content(lines) ==
    LET found == ParseLines(lines, << >>)
        nums == {found[i].number : i \in 1..Len(found)}
        last(k) == CHOOSE i \in 1..Len(found) :
                      /\ found[i].number = k
                      /\ \A j \in (i + 1)..Len(found) : found[j].number # k
    IN  [k \in nums |-> found[last(k)]]

Min(S) == CHOOSE x \in S : \A y \in S : x <= y

RECURSIVE SortedSeq(_)
SortedSeq(S) ==
    IF S = {} THEN << >> ELSE <<Min(S)>> \o SortedSeq(S \ {Min(S)})

\* line 119
sorted_scenes_reversed(content) ==
    LET up == SortedSeq(DOMAIN content)
    IN  [i \in 1..Len(up) |-> up[Len(up) + 1 - i]]
sorted_scenes(content) == SortedSeq(DOMAIN content)

\* line 122
has_timestamps(content) == \E k \in DOMAIN content : ~IsNone(content[k].start_time)

RECURSIVE SumWords(_, _)
SumWords(content, S) ==
    IF S = {} THEN 0
    ELSE LET k == Min(S) IN content[k].words + SumWords(content, S \ {k})

\* line 141
total_words_plus(content) == SumWords(content, DOMAIN content) + 1
total_words(content) == SumWords(content, DOMAIN content)

\* lines 125-138: one scene under the explicit policy; `end - start` raises
\* TypeError when either side is None
ExplicitEndToAudio(content, order, i, audio_duration) ==
    LET data == content[order[i]]
    IN  IF ~IsNone(data.end_time) THEN data.end_time ELSE audio_duration
ExplicitEndClamped(content, order, i, audio_duration) ==
    LET data == content[order[i]]
    IN  IF ~IsNone(data.end_time)
        THEN IF RLess(audio_duration, data.end_time) THEN audio_duration ELSE data.end_time
        ELSE IF i < Len(order) THEN content[order[i + 1]].start_time
        ELSE audio_duration
ExplicitEnd(content, order, i, audio_duration) ==
    LET data == content[order[i]]
    IN  IF ~IsNone(data.end_time) THEN data.end_time
        ELSE IF i < Len(order) THEN content[order[i + 1]].start_time
        ELSE audio_duration

ExplicitScenes(content, order, audio_duration) ==
    [i \in 1..Len(order) |->
        LET st == content[order[i]].start_time
            en == ExplicitEnd(content, order, i, audio_duration)
        IN  [scene_number |-> order[i],
             start_time |-> st,
             end_time |-> en,
             duration |-> IF IsNone(st) \/ IsNone(en) THEN None ELSE RSub(en, st)]]

\* lines 143-160
RECURSIVE ProportionalScenes(_, _, _, _, _)
ProportionalScenes(content, order, i, cumulative_time, audio_duration) ==
    IF i > Len(order) THEN << >>
    ELSE LET word_count == content[order[i]].words
             scene_duration == RMul(Rat(word_count, total_words(content)), audio_duration)
             end_time == RAdd(cumulative_time, scene_duration)
         IN  <<[scene_number |-> order[i],
                start_time |-> cumulative_time,
                end_time |-> end_time,
                duration |-> scene_duration]>>
             \o ProportionalScenes(content, order, i + 1, end_time, audio_duration)

\* lines 162-173
UniformScenesOneMore(order, audio_duration) ==
    LET n == Len(order)
        duration_per_scene == RMul(audio_duration, Rat(1, n + 1))
    IN  [i \in 1..n |->
            LET start_time == RMul(Int2R(i - 1), duration_per_scene)
                end_time == IF i - 1 < n - 1 THEN RMul(Int2R(i), duration_per_scene)
                            ELSE audio_duration
            IN  [scene_number |-> order[i],
                 start_time |-> start_time,
                 end_time |-> end_time,
                 duration |-> RSub(end_time, start_time)]]
UniformScenes(order, audio_duration) ==
    LET n == Len(order)
        duration_per_scene == RMul(audio_duration, Rat(1, n))
    IN  [i \in 1..n |->
            LET start_time == RMul(Int2R(i - 1), duration_per_scene)
                end_time == IF i - 1 < n - 1 THEN RMul(Int2R(i), duration_per_scene)
                            ELSE audio_duration
            IN  [scene_number |-> order[i],
                 start_time |-> start_time,
                 end_time |-> end_time,
                 duration |-> RSub(end_time, start_time)]]

\* lines 125-138 in floating point: the start and end times are ints or
\* audio_duration, only the subtraction rounds
ExplicitScenesFp(content, order, audio_duration) ==
    LET exact == ExplicitScenes(content, order, audio_duration)
    IN  [i \in 1..Len(order) |->
            [exact[i] EXCEPT !.duration = IF IsNone(@) THEN None ELSE FRound(@)]]

\* lines 143-160 in floating point
RECURSIVE ProportionalScenesFp(_, _, _, _, _)
ProportionalScenesFp(content, order, i, cumulative_time, audio_duration) ==
    IF i > Len(order) THEN << >>
    ELSE LET word_count == content[order[i]].words
             scene_duration ==
                 FMul(FDiv(Int2R(word_count), Int2R(total_words(content))), audio_duration)
             end_time == FAdd(cumulative_time, scene_duration)
         IN  <<[scene_number |-> order[i],
                start_time |-> cumulative_time,
                end_time |-> end_time,
                duration |-> scene_duration]>>
             \o ProportionalScenesFp(content, order, i + 1, end_time, audio_duration)

\* lines 162-173 in floating point
UniformScenesFp(order, audio_duration) ==
    LET n == Len(order)
        duration_per_scene == FDiv(audio_duration, Int2R(n))
    IN  [i \in 1..n |->
            LET start_time == FMul(Int2R(i - 1), duration_per_scene)
                end_time == IF i - 1 < n - 1 THEN FMul(Int2R(i), duration_per_scene)
                            ELSE audio_duration
            IN  [scene_number |-> order[i],
                 start_time |-> start_time,
                 end_time |-> end_time,
                 duration |-> FSub(end_time, start_time)]]

\* lines 50-175 in floating point
parse_scene_timings_fp(script_text, audio_duration) ==
    LET content == scene_content(script_text)
        order == sorted_scenes(content)
    IN  IF DOMAIN content = {} THEN [raised |-> FALSE, scenes |-> << >>]
        ELSE IF has_timestamps(content)
        THEN LET out == ExplicitScenesFp(content, order, audio_duration)
             IN  IF \E i \in 1..Len(out) : IsNone(out[i].duration)
                 THEN [raised |-> TRUE, scenes |-> << >>]
                 ELSE [raised |-> FALSE, scenes |-> out]
        ELSE IF total_words(content) > 0
        THEN [raised |-> FALSE,
              scenes |-> ProportionalScenesFp(content, order, 1, Zero, audio_duration)]
        ELSE [raised |-> FALSE, scenes |-> UniformScenesFp(order, audio_duration)]

\* lines 50-175; raised is TRUE when the function ends with an exception
parse_scene_timings(script_text, audio_duration) ==
    LET content == scene_content(script_text)
        order == sorted_scenes(content)
    IN  IF DOMAIN content = {} THEN [raised |-> FALSE, scenes |-> << >>]
        ELSE IF has_timestamps(content)
        THEN LET out == ExplicitScenes(content, order, audio_duration)
             IN  IF \E i \in 1..Len(out) : IsNone(out[i].duration)
                 THEN [raised |-> TRUE, scenes |-> << >>]
                 ELSE [raised |-> FALSE, scenes |-> out]
        ELSE IF total_words(content) > 0
        THEN [raised |-> FALSE,
              scenes |-> ProportionalScenes(content, order, 1, Zero, audio_duration)]
        ELSE [raised |-> FALSE, scenes |-> UniformScenes(order, audio_duration)]

(* --------------------- image rows and alignment ------------------------ *)
\* the md5 digests of two different image contents (line 674)
Hashes == {"a", "b"}

\* an images row as compile_video sees it after lines 629-658: the scene
\* number it resolved for the row, whether the row carries image data, and
\* the hash of that data
ImageRows == [scene_number : 0..MaxTag, has_data : BOOLEAN, hash : {"a"}]
ImageRowLists == SeqsUpTo(ImageRows, MaxImages)

\* line 625
TimingFor(scene_timings, k) ==
    LET hits == {i \in 1..Len(scene_timings) : scene_timings[i].scene_number = k}
    IN  IF hits = {} THEN 0 ELSE CHOOSE i \in hits : TRUE

\* list.sort(key=scene_number) is stable: x goes after every element whose
\* key is not larger
RECURSIVE InsertByScene(_, _)
InsertByScene(sorted, x) ==
    IF sorted = << >> THEN <<x>>
    ELSE IF x.scene_number < Head(sorted).scene_number THEN <<x>> \o sorted
    ELSE <<Head(sorted)>> \o InsertByScene(Tail(sorted), x)

RECURSIVE SortByScene(_, _)
SortByScene(list, acc) ==
    IF list = << >> THEN acc
    ELSE SortByScene(Tail(list), InsertByScene(acc, Head(list)))

\* lines 627-701: rows without image data are skipped; the file written for
\* row i is named after its scene number and i, here image_path is i
RECURSIVE ProcessRows(_, _, _, _)
ProcessRows(rows, i, scene_timings, duration) ==
    IF i > Len(rows) THEN << >>
    ELSE IF ~rows[i].has_data THEN ProcessRows(rows, i + 1, scene_timings, duration)
    ELSE LET t == TimingFor(scene_timings, rows[i].scene_number)
         IN  <<[scene_number |-> rows[i].scene_number,
                image_path |-> i,
                hash |-> rows[i].hash,
                start_time |-> IF t = 0 THEN Zero ELSE scene_timings[t].start_time,
                duration |-> IF t = 0 THEN RMul(duration, Rat(1, Len(rows)))
                             ELSE scene_timings[t].duration]>>
             \o ProcessRows(rows, i + 1, scene_timings, duration)

images_with_scenes(rows, scene_timings, duration) ==
    SortByScene(ProcessRows(rows, 1, scene_timings, duration), << >>)

\* lines 721-727: `if scene_num:` leaves out scene number 0; the first image
\* of a scene number wins
images_by_scene_last(images) ==
    LET keys == {images[i].scene_number : i \in 1..Len(images)} \ {0}
        last(k) == CHOOSE i \in 1..Len(images) :
                      /\ images[i].scene_number = k
                      /\ \A j \in (i + 1)..Len(images) : images[j].scene_number # k
    IN  [k \in keys |-> images[last(k)]]
images_by_scene_new_content(images) ==
    LET fresh == {i \in 1..Len(images) :
                     \A j \in 1..(i - 1) : images[j].hash # images[i].hash}
        keys == {images[i].scene_number : i \in fresh} \ {0}
        first(k) == Min({i \in fresh : images[i].scene_number = k})
    IN  [k \in keys |-> images[first(k)]]
images_by_scene(images) ==
    LET keys == {images[i].scene_number : i \in 1..Len(images)} \ {0}
        first(k) == Min({i \in 1..Len(images) : images[i].scene_number = k})
    IN  [k \in keys |-> images[first(k)]]

\* line 750
available_scene_nums(lookup, matched) ==
    DOMAIN lookup \ {matched[j].scene_number : j \in 1..Len(matched)}

\* lines 737-743, 756-762, 767-773: the entry appended for a timing and the
\* image or earlier entry img
Segment_of_image(timing, img) ==
    [scene_number |-> timing.scene_number,
     image_path |-> img.image_path,
     hash |-> img.hash,
     start_time |-> img.start_time,
     duration |-> img.duration]
Segment(timing, img) ==
    [scene_number |-> timing.scene_number,
     image_path |-> img.image_path,
     hash |-> img.hash,
     start_time |-> timing.start_time,
     duration |-> timing.duration]

\* lines 730-773
RECURSIVE AlignLoop(_, _, _, _)
AlignLoop(scene_timings, lookup, i, matched) ==
    IF i > Len(scene_timings) THEN matched
    ELSE LET timing == scene_timings[i]
             available == available_scene_nums(lookup, matched)
         IN  IF timing.scene_number \in DOMAIN lookup
             THEN AlignLoop(scene_timings, lookup, i + 1,
                    Append(matched, Segment(timing, lookup[timing.scene_number])))
             ELSE IF available # {}
             THEN AlignLoop(scene_timings, lookup, i + 1,
                    Append(matched, Segment(timing, lookup[Min(available)])))
             ELSE IF matched # << >>
             THEN AlignLoop(scene_timings, lookup, i + 1,
                    Append(matched, Segment(timing, matched[Len(matched)])))
             ELSE AlignLoop(scene_timings, lookup, i + 1, matched)

matched_images_of(scene_timings, images) ==
    AlignLoop(scene_timings, images_by_scene(images), 1, << >>)

(* ----------------------------- state ----------------------------------- *)
VARIABLES
    pc,              \* position of the call or request
    script_text,     \* the script's lines
    audio_duration,  \* what _get_audio_duration returned
    audio_probe,     \* how the ffprobe run on the audio file ended
    timings,         \* result of _parse_scene_timings, in exact arithmetic
    timings_fp,      \* the same result in floating point
    image_rows,      \* images_result.data
    images,          \* images_with_scenes before matching
    matched_images,  \* matched_images
    segments,        \* the list handed to _compile_video_with_scene_timings
    subprocs,        \* the commands started with subprocess.run, in order
    scratch,         \* compile_video's temp_dir: "none", "exists", "removed"
    scratch_files,   \* the files in it
    comp_dir,        \* the compositor's temp_dir: "none", "exists", "removed"
    comp_files,      \* the files in it
    seg_i,           \* index of the segment being rendered
    success,         \* the compositor's return value: "pending", "true", "false"
    comp_failure,    \* the compositor step that failed, and how
    faststart,       \* outcome of qt-faststart and of the ffmpeg fallback
    probe_rc,        \* outcome of the final ffprobe
    videos_dir,      \* ids of the files in the videos directory
    videos_rows,     \* rows of the videos table
    project_status,  \* projects.status
    response,        \* 0 while running, else the HTTP status of the reply
    requests,        \* two concurrent compile_video requests: position, paths held
    tmpfs,           \* the directories under the system's temporary directory
    video_files,     \* the videos directory shared by the requests
    caller,          \* the authenticated user, the endpoint and its argument
    served           \* the video or metadata in the reply

datavars == <<script_text, audio_duration, audio_probe, timings, timings_fp, image_rows, images, matched_images>>
compvars == <<segments, comp_dir, comp_files, seg_i, success, comp_failure, faststart, probe_rc>>
diskvars == <<scratch, scratch_files>>
storevars == <<videos_dir, videos_rows, project_status>>
concvars == <<requests, tmpfs, video_files>>
accessvars == <<caller, served>>
vars == <<pc, datavars, compvars, diskvars, storevars, subprocs, response, concvars, accessvars>>

NoTimings == [raised |-> FALSE, scenes |-> << >>]
NoProbe == [how |-> "none", out |-> None]
NoFailure == [step |-> "none", how |-> "none"]
NoFaststart == [qt |-> "none", ff |-> "none"]

\* two requests that have not started, no temporary directory, no video
Requests == {"A", "B"}
TmpNames == 1..MaxTmpNames
Ids == 1..MaxIds
NoDir == [exists |-> FALSE, writers |-> {}]
NoPaths == [pc |-> "mkdtemp", temp_dir |-> 0, comp_dir |-> 0, video_id |-> 0]
ConcurrentIdle ==
    /\ requests = [r \in Requests |-> NoPaths]
    /\ tmpfs = [n \in TmpNames |-> NoDir]
    /\ video_files = [v \in Ids |-> {}]

\* the projects table: the user_id of each project
Users == {"u1", "u2"}
projects_table == [p1 |-> "u1", p2 |-> "u2"]
Projects == DOMAIN projects_table
NoCaller == [user |-> "none", endpoint |-> "none", target |-> "none"]
Nothing == [kind |-> "none", id |-> 0, project_id |-> "none"]

\* the state of a request that has not started
NothingRun ==
    /\ segments = << >>
    /\ subprocs = << >>
    /\ scratch = "none"
    /\ scratch_files = {}
    /\ comp_dir = "none"
    /\ comp_files = {}
    /\ seg_i = 0
    /\ success = "pending"
    /\ comp_failure = NoFailure
    /\ faststart = NoFaststart
    /\ probe_rc = "none"
    /\ project_status = "images"
    /\ response = 0
    /\ served = Nothing
    /\ ConcurrentIdle

RequestIdle ==
    /\ NothingRun
    /\ videos_dir = {}
    /\ videos_rows = {}

requestvars == <<compvars, diskvars, storevars, subprocs, response, concvars, accessvars>>

(* ---- a call of _parse_scene_timings on one script and one duration ---- *)
InitTimings ==
    /\ pc = "timings_call"
    /\ \/ /\ \E preamble \in BOOLEAN, blocks \in [1..MaxBlocks -> Blocks \cup {NoBlock}] :
                script_text = ScriptOf(preamble, blocks)
          /\ audio_duration \in Durations
       \/ \E call \in ExampleCalls :
             /\ script_text = call.script
             /\ audio_duration = call.duration
    /\ timings = NoTimings
    /\ timings_fp = NoTimings
    /\ audio_probe = NoProbe
    /\ image_rows = << >>
    /\ images = << >>
    /\ matched_images = << >>
    /\ RequestIdle
    /\ caller = NoCaller

ParseSceneTimings ==
    /\ pc = "timings_call"
    /\ timings' = parse_scene_timings(script_text, audio_duration)
    /\ pc' = "timings_returned"
    /\ UNCHANGED <<script_text, audio_duration, audio_probe, timings_fp, image_rows, images, matched_images>>
    /\ UNCHANGED requestvars

NextTimings == ParseSceneTimings

SpecTimings == InitTimings /\ [][NextTimings]_vars

(* ---- the same call in floating point, on scripts without time ranges ---- *)
PlainBlocks == {b \in Blocks : b.range = <<Absent, Absent>>}

InitTimingsFp ==
    /\ pc = "timings_call"
    /\ \/ /\ \E preamble \in BOOLEAN, blocks \in [1..MaxBlocks -> PlainBlocks \cup {NoBlock}] :
                script_text = ScriptOf(preamble, blocks)
          /\ audio_duration \in Durations
       \/ \E call \in ExampleCalls :
             /\ script_text = call.script
             /\ audio_duration = call.duration
    /\ timings = NoTimings
    /\ timings_fp = NoTimings
    /\ audio_probe = NoProbe
    /\ image_rows = << >>
    /\ images = << >>
    /\ matched_images = << >>
    /\ RequestIdle
    /\ caller = NoCaller

ParseSceneTimingsFp ==
    /\ pc = "timings_call"
    /\ timings_fp' = parse_scene_timings_fp(script_text, audio_duration)
    /\ pc' = "timings_returned"
    /\ UNCHANGED <<script_text, audio_duration, audio_probe, timings, image_rows, images, matched_images>>
    /\ UNCHANGED requestvars

NextTimingsFp == ParseSceneTimingsFp

SpecTimingsFp == InitTimingsFp /\ [][NextTimingsFp]_vars

(* ---- the alignment step of compile_video, lines 627-780 ---- *)
\* the script "Scene k" for every k of S, without narration
RECURSIVE MarkersOf(_)
MarkersOf(S) ==
    IF S = {} THEN << >>
    ELSE <<Marker(Min(S), Absent, Absent)>> \o MarkersOf(S \ {Min(S)})

InitAlign ==
    /\ pc = "align_call"
    /\ \E S \in SUBSET (1..MaxTag) : script_text = MarkersOf(S)
    /\ audio_duration = Int2R(MaxDur)
    /\ timings = parse_scene_timings(script_text, audio_duration)
    /\ timings_fp = NoTimings
    /\ audio_probe = NoProbe
    /\ image_rows \in ImageRowLists
    /\ images = << >>
    /\ matched_images = << >>
    /\ RequestIdle
    /\ caller = NoCaller

ProcessImages ==
    /\ pc = "align_call"
    /\ images' = images_with_scenes(image_rows, timings.scenes, audio_duration)
    /\ pc' = "align_images"
    /\ UNCHANGED <<script_text, audio_duration, audio_probe, timings, timings_fp, image_rows, matched_images>>
    /\ UNCHANGED requestvars

MatchImages ==
    /\ pc = "align_images"
    /\ matched_images' = matched_images_of(timings.scenes, images)
    /\ pc' = "align_done"
    /\ UNCHANGED <<script_text, audio_duration, audio_probe, timings, timings_fp, image_rows, images>>
    /\ UNCHANGED requestvars

NextAlign == ProcessImages \/ MatchImages

SpecAlign == InitAlign /\ [][NextAlign]_vars

(* ---- the alignment step on image rows of equal and of different content ---- *)
HashedImageRows ==
    SeqsUpTo([scene_number : 0..PipeScenes, has_data : BOOLEAN, hash : Hashes], PipeImages)

InitAlignHashes ==
    /\ pc = "align_call"
    /\ \E S \in SUBSET (1..(PipeScenes + 1)) : script_text = MarkersOf(S)
    /\ audio_duration = Int2R(MaxDur)
    /\ timings = parse_scene_timings(script_text, audio_duration)
    /\ timings_fp = NoTimings
    /\ audio_probe = NoProbe
    /\ image_rows \in HashedImageRows
    /\ images = << >>
    /\ matched_images = << >>
    /\ RequestIdle
    /\ caller = NoCaller

SpecAlignHashes == InitAlignHashes /\ [][NextAlign]_vars

(* ---- a compile_video request, lines 451-988 ---- *)
File(f, a, b) == [f |-> f, a |-> a, b |-> b]
AudioFile == File("audio", 0, 0)
OutputFile == File("output.mp4", 0, 0)
OutputTmp == File("output.mp4.tmp", 0, 0)
\* a subprocess.run call: the program, the index of the segment it renders
\* (0 otherwise) and, for a segment render, the -t and fade-out st arguments
Cmd(c, i) == [cmd |-> c, i |-> i, t |-> None, fade_st |-> None, files |-> << >>]

\* "Scene 1 (0:00-0:10)" followed by "Scene 2": `end - start` raises
MixedScript == <<Marker(1, <<0, 0>>, <<0, 10>>), Marker(2, Absent, Absent)>>

PipeScripts == {MarkersOf(S) : S \in SUBSET (1..PipeScenes)} \cup {MixedScript}
PipeImageRows == SeqsUpTo([scene_number : 0..PipeScenes, has_data : BOOLEAN, hash : {"a"}], PipeImages)

InitRequest ==
    /\ pc = "verify"
    /\ script_text \in PipeScripts
    /\ image_rows \in PipeImageRows
    /\ audio_duration = Zero
    /\ timings = NoTimings
    /\ timings_fp = NoTimings
    /\ audio_probe = NoProbe
    /\ images = << >>
    /\ matched_images = << >>
    /\ RequestIdle
    /\ caller \in [user : Users, endpoint : {"compile"}, target : {"p1"}]

\* lines 970-975: the finally block of compile_video
finally_skip(dir) == dir
finally_cleanup(dir) == IF dir = "exists" THEN "removed" ELSE dir

\* an HTTPException raised before the scratch directory exists
Reply(status) ==
    /\ pc' = "done"
    /\ response' = status

\* leaving the try block of line 589 with a reply: the finally block runs
Exit(status, files) ==
    /\ pc' = "done"
    /\ response' = status
    /\ scratch' = finally_cleanup(scratch)
    /\ scratch_files' = IF scratch' = "removed" THEN {} ELSE files

\* lines 463, 1013, 1057: the query on projects with eq('id') and
\* eq('user_id') returns a row
owned_by_anyone(user, project_id) == project_id \in Projects
owned(user, project_id) ==
    project_id \in Projects /\ projects_table[project_id] = user

\* lines 461-466
VerifyOwnership ==
    /\ pc = "verify"
    /\ IF owned(caller.user, caller.target)
       THEN pc' = "check_ffmpeg" /\ UNCHANGED response
       ELSE Reply(403)
    /\ UNCHANGED <<datavars, compvars, diskvars, storevars, subprocs>>
    /\ UNCHANGED concvars
    /\ UNCHANGED accessvars

\* lines 468-472 and _check_ffmpeg
CheckFfmpeg ==
    /\ pc = "check_ffmpeg"
    /\ subprocs' = Append(subprocs, Cmd("ffmpeg -version", 0))
    /\ \E available \in BOOLEAN :
          IF available THEN pc' = "fetch" /\ UNCHANGED response
          ELSE Reply(503)
    /\ UNCHANGED <<datavars, compvars, diskvars, storevars>>
    /\ UNCHANGED concvars
    /\ UNCHANGED accessvars

\* lines 474-582: script, voiceover, scenes and images are read
FetchProjectData ==
    /\ pc = "fetch"
    /\ \E missing \in {"none", "script", "voiceover", "audio_data", "scenes"} :
          IF missing # "none" \/ image_rows = << >> THEN Reply(400)
          ELSE pc' = "mkdtemp" /\ UNCHANGED response
    /\ UNCHANGED <<datavars, compvars, diskvars, storevars, subprocs>>
    /\ UNCHANGED concvars
    /\ UNCHANGED accessvars

\* line 586
CreateScratch ==
    /\ pc = "mkdtemp"
    /\ scratch' = "exists"
    /\ pc' = "save_audio"
    /\ UNCHANGED <<datavars, compvars, scratch_files, storevars, subprocs, response>>
    /\ UNCHANGED concvars
    /\ UNCHANGED accessvars

\* lines 590-606; b64decode raises on malformed data
SaveAudio ==
    /\ pc = "save_audio"
    /\ \E decoded \in BOOLEAN :
          IF decoded
          THEN /\ scratch_files' = scratch_files \cup {AudioFile}
               /\ pc' = "probe_audio"
               /\ UNCHANGED <<scratch, response>>
          ELSE Exit(500, scratch_files)
    /\ UNCHANGED <<datavars, compvars, storevars, subprocs>>
    /\ UNCHANGED concvars
    /\ UNCHANGED accessvars

\* _get_audio_duration, lines 33-47: how the ffprobe run can end.  It exits
\* non-zero, runs into the 10 s timeout, is not installed, prints something
\* float() rejects, or prints a number: -1, 0, 0.75 or MaxDur
ProbeOutcomes ==
    {[how |-> h, out |-> None] : h \in {"nonzero", "timeout", "missing", "unparseable"}}
        \cup {[how |-> "printed", out |-> v] :
                  v \in {Int2R(-1), Zero, Rat(3, 4), Int2R(MaxDur)}}

\* the printed number after exit code 0, 0.0 after anything else
get_audio_duration(outcome) ==
    IF outcome.how = "printed" THEN outcome.out ELSE Zero

\* line 611
duration_is_zero(d) == d = Zero
duration_unknown(d) == RLeq(d, Zero)

\* lines 608-613
GetAudioDuration ==
    /\ pc = "probe_audio"
    /\ subprocs' = Append(subprocs, Cmd("ffprobe audio", 0))
    /\ \E outcome \in ProbeOutcomes :
          /\ audio_probe' = outcome
          /\ audio_duration' = get_audio_duration(outcome)
          /\ IF duration_unknown(audio_duration') THEN Exit(400, scratch_files)
             ELSE pc' = "parse" /\ UNCHANGED <<diskvars, response>>
    /\ UNCHANGED <<script_text, timings, timings_fp, image_rows, images, matched_images>>
    /\ UNCHANGED <<compvars, storevars>>
    /\ UNCHANGED concvars
    /\ UNCHANGED accessvars

\* lines 615-620; an exception of _parse_scene_timings ends the request
ParseTimings ==
    /\ pc = "parse"
    /\ timings' = parse_scene_timings(script_text, audio_duration)
    /\ IF timings'.raised THEN Exit(500, scratch_files)
       ELSE pc' = "process_images" /\ UNCHANGED <<diskvars, response>>
    /\ UNCHANGED <<script_text, audio_duration, audio_probe, timings_fp, image_rows, images, matched_images>>
    /\ UNCHANGED <<compvars, storevars, subprocs>>
    /\ UNCHANGED concvars
    /\ UNCHANGED accessvars

ImageFiles(list) == {File("img", list[i].scene_number, list[i].image_path) : i \in 1..Len(list)}

\* lines 622-701; b64decode raises on malformed image data
SaveImages ==
    /\ pc = "process_images"
    /\ \E decoded \in BOOLEAN :
          IF decoded
          THEN /\ images' = images_with_scenes(image_rows, timings.scenes, audio_duration)
               /\ scratch_files' = scratch_files \cup ImageFiles(images')
               /\ pc' = "match"
               /\ UNCHANGED <<scratch, response>>
          ELSE /\ Exit(500, scratch_files)
               /\ UNCHANGED images
    /\ UNCHANGED <<script_text, audio_duration, audio_probe, timings, timings_fp, image_rows, matched_images>>
    /\ UNCHANGED <<compvars, storevars, subprocs>>
    /\ UNCHANGED concvars
    /\ UNCHANGED accessvars

\* lines 775-780
select_matched_only(matched, unaligned) == matched
select_segments(matched, unaligned) == IF matched # << >> THEN matched ELSE unaligned

\* lines 717-826: match, then call the compositor
AlignImages ==
    /\ pc = "match"
    /\ matched_images' = matched_images_of(timings.scenes, images)
    /\ segments' = select_segments(matched_images', images)
    /\ pc' = "comp_start"
    /\ UNCHANGED <<script_text, audio_duration, audio_probe, timings, timings_fp, image_rows, images>>
    /\ UNCHANGED <<comp_dir, comp_files, seg_i, success, comp_failure, faststart, probe_rc>>
    /\ UNCHANGED <<diskvars, storevars, subprocs, response>>
    /\ UNCHANGED concvars
    /\ UNCHANGED accessvars

(* ---- _compile_video_with_scene_timings, lines 178-448 ---- *)
\* line 192
sorted_images == SortByScene(segments, << >>)

\* line 217: img_scene_{scene_num:03d}_seq_{i:04d}; line 252: segment_{i:04d}.mp4
CopyFileByScene(i) == File("img_copy", sorted_images[i].scene_number, 0)
CopyFile(i) == File("img_copy", sorted_images[i].scene_number, i - 1)
SegmentFile(i) == File("segment", 0, i - 1)
FileList == File("filelist.txt", 0, 0)
VideoNoAudio == File("video_no_audio.mp4", 0, 0)

\* `return False`, or an exception caught at line 444: no cleanup there
ReturnFalse(step, how) ==
    /\ success' = "false"
    /\ comp_failure' = [step |-> step, how |-> how]
    /\ pc' = "after_compile"

\* lines 194-195: `if not sorted_images: raise ValueError`
no_images_unchecked(list) == FALSE
no_images(list) == list = << >>

\* lines 189-195: mkdtemp, then ValueError when the list is empty
CompStart ==
    /\ pc = "comp_start"
    /\ comp_dir' = "exists"
    /\ IF no_images(sorted_images) THEN ReturnFalse("images", "raised")
       ELSE pc' = "comp_copy" /\ UNCHANGED <<success, comp_failure>>
    /\ UNCHANGED <<segments, comp_files, seg_i, faststart, probe_rc>>
    /\ UNCHANGED <<datavars, diskvars, storevars, subprocs, response>>
    /\ UNCHANGED concvars
    /\ UNCHANGED accessvars

\* lines 205-246: the images are copied one by one; a missing source or a
\* failed copy of image k ends the function with k - 1 copies made; the
\* loop of line 251 has no pass when the list is empty
CompCopy ==
    /\ pc = "comp_copy"
    /\ \/ /\ comp_files' = comp_files \cup {CopyFile(i) : i \in 1..Len(sorted_images)}
          /\ seg_i' = 1
          /\ pc' = IF sorted_images = << >> THEN "comp_concat" ELSE "comp_segment"
          /\ UNCHANGED <<success, comp_failure>>
       \/ \E k \in 1..Len(sorted_images) :
             /\ comp_files' = comp_files \cup {CopyFile(i) : i \in 1..(k - 1)}
             /\ ReturnFalse("copy", "missing")
             /\ UNCHANGED seg_i
    /\ UNCHANGED <<segments, comp_dir, faststart, probe_rc>>
    /\ UNCHANGED <<datavars, diskvars, storevars, subprocs, response>>
    /\ UNCHANGED concvars
    /\ UNCHANGED accessvars

\* line 197
fade_duration == Rat(1, 2)

\* line 256: max(0, duration - fade_duration)
fade_out_unclamped(duration) == RSub(duration, fade_duration)
fade_out(duration) ==
    IF RLess(RSub(duration, fade_duration), Zero) THEN Zero
    ELSE RSub(duration, fade_duration)

\* lines 261-274: the ffmpeg command of segment i
SegmentCmd(i) ==
    [cmd |-> "ffmpeg segment", i |-> i,
     t |-> sorted_images[i].duration,
     fade_st |-> fade_out(sorted_images[i].duration),
     files |-> << >>]

\* lines 251-295: one ffmpeg run per segment, in order
CompSegment ==
    /\ pc = "comp_segment"
    /\ subprocs' = Append(subprocs, SegmentCmd(seg_i))
    /\ \E rc \in {"zero", "nonzero", "timeout", "no_file"} :
          IF rc = "zero"
          THEN /\ comp_files' = comp_files \cup {SegmentFile(seg_i)}
               /\ IF seg_i < Len(sorted_images)
                  THEN seg_i' = seg_i + 1 /\ pc' = "comp_segment"
                  ELSE seg_i' = seg_i /\ pc' = "comp_concat"
               /\ UNCHANGED <<success, comp_failure>>
          ELSE /\ ReturnFalse("segment", rc)
               /\ UNCHANGED <<comp_files, seg_i>>
    /\ UNCHANGED <<segments, comp_dir, faststart, probe_rc>>
    /\ UNCHANGED <<datavars, diskvars, storevars, response>>
    /\ UNCHANGED concvars
    /\ UNCHANGED accessvars

\* lines 249-253, 299-302: filelist.txt names the clips in the order of
\* video_segments, to which the loop appended them
video_segments_reversed ==
    [i \in 1..Len(sorted_images) |-> SegmentFile(Len(sorted_images) + 1 - i)]
video_segments == [i \in 1..Len(sorted_images) |-> SegmentFile(i)]

\* lines 305-315: the concat command reads filelist.txt
ConcatCmd == [Cmd("ffmpeg concat", 0) EXCEPT !.files = video_segments]

\* lines 297-321
CompConcat ==
    /\ pc = "comp_concat"
    /\ subprocs' = Append(subprocs, ConcatCmd)
    /\ \E rc \in {"zero", "nonzero", "timeout"} :
          IF rc = "zero"
          THEN /\ comp_files' = comp_files \cup {FileList, VideoNoAudio}
               /\ pc' = "comp_mux"
               /\ UNCHANGED <<success, comp_failure>>
          ELSE /\ comp_files' = comp_files \cup {FileList}
               /\ ReturnFalse("concat", rc)
    /\ UNCHANGED <<segments, comp_dir, seg_i, faststart, probe_rc>>
    /\ UNCHANGED <<datavars, diskvars, storevars, response>>
    /\ UNCHANGED concvars
    /\ UNCHANGED accessvars

\* lines 347-362: only these two failures remove the temporary directory;
\* a failed or killed ffmpeg may leave a partial output file
CompMux ==
    /\ pc = "comp_mux"
    /\ subprocs' = Append(subprocs, Cmd("ffmpeg mux", 0))
    /\ \E rc \in {"zero", "nonzero", "timeout", "no_file"} :
          \/ /\ rc = "zero"
             /\ scratch_files' = scratch_files \cup {OutputFile}
             /\ pc' = "comp_qt"
             /\ UNCHANGED <<comp_dir, comp_files, success, comp_failure>>
          \/ /\ rc \in {"nonzero", "no_file"}
             /\ \E partial \in BOOLEAN :
                   scratch_files' = IF partial /\ rc = "nonzero"
                                    THEN scratch_files \cup {OutputFile}
                                    ELSE scratch_files
             /\ comp_dir' = "removed"
             /\ comp_files' = {}
             /\ ReturnFalse("mux", rc)
          \/ /\ rc = "timeout"
             /\ \E partial \in BOOLEAN :
                   scratch_files' = IF partial THEN scratch_files \cup {OutputFile}
                                    ELSE scratch_files
             /\ ReturnFalse("mux", rc)
             /\ UNCHANGED <<comp_dir, comp_files>>
    /\ UNCHANGED <<segments, seg_i, faststart, probe_rc>>
    /\ UNCHANGED <<datavars, scratch, storevars, response>>
    /\ UNCHANGED concvars
    /\ UNCHANGED accessvars

\* lines 364-380: subprocess.run raises FileNotFoundError when qt-faststart
\* is not installed and TimeoutExpired after 30 s; both reach line 444
CompQtFaststart ==
    /\ pc = "comp_qt"
    /\ subprocs' = Append(subprocs, Cmd("qt-faststart", 0))
    /\ \E rc \in {"zero", "nonzero", "missing", "timeout"} :
          /\ faststart' = [faststart EXCEPT !.qt = rc]
          /\ IF rc = "zero"
             THEN pc' = "comp_validate" /\ UNCHANGED <<success, comp_failure>>
             ELSE IF rc = "nonzero"
             THEN pc' = "comp_ff" /\ UNCHANGED <<success, comp_failure>>
             ELSE ReturnFalse("faststart", rc)
    /\ UNCHANGED <<segments, comp_dir, comp_files, seg_i, probe_rc>>
    /\ UNCHANGED <<datavars, diskvars, storevars, response>>
    /\ UNCHANGED concvars
    /\ UNCHANGED accessvars

\* lines 381-404: the ffmpeg fallback; its temporary file is moved over the
\* output or removed
CompFfmpegFaststart ==
    /\ pc = "comp_ff"
    /\ subprocs' = Append(subprocs, Cmd("ffmpeg faststart", 0))
    /\ \E rc \in {"zero", "nonzero", "timeout"} :
          /\ faststart' = [faststart EXCEPT !.ff = rc]
          /\ IF rc = "timeout"
             THEN /\ ReturnFalse("faststart", rc)
                  /\ scratch_files' = scratch_files \cup {OutputTmp}
             ELSE /\ pc' = "comp_validate"
                  /\ UNCHANGED <<success, comp_failure, scratch_files>>
    /\ UNCHANGED <<segments, comp_dir, comp_files, seg_i, probe_rc>>
    /\ UNCHANGED <<datavars, scratch, storevars, response>>
    /\ UNCHANGED concvars
    /\ UNCHANGED accessvars

\* lines 425-442: a non-zero ffprobe is logged, the function returns True
validation_strict(rc) == rc = "zero"
validation_passes(rc) == rc \in {"zero", "nonzero"}

\* lines 406-448: the temporary directory is removed, then ffprobe runs
CompValidate ==
    /\ pc = "comp_validate"
    /\ comp_dir' = "removed"
    /\ comp_files' = {}
    /\ subprocs' = Append(subprocs, Cmd("ffprobe video", 0))
    /\ \E rc \in {"zero", "nonzero", "timeout"} :
          /\ probe_rc' = rc
          /\ IF validation_passes(rc)
             THEN success' = "true" /\ pc' = "after_compile" /\ UNCHANGED comp_failure
             ELSE ReturnFalse("validate", rc)
    /\ UNCHANGED <<segments, seg_i, faststart>>
    /\ UNCHANGED <<datavars, diskvars, storevars, response>>
    /\ UNCHANGED concvars
    /\ UNCHANGED accessvars

(* ---- compile_video after the compositor returned, lines 828-975 ---- *)
\* line 828
compile_failed_ignoring_result(ok, output_exists) == ~output_exists
compile_failed(ok, output_exists) == ok # "true" \/ ~output_exists

AfterCompile ==
    /\ pc = "after_compile"
    /\ IF compile_failed(success, OutputFile \in scratch_files)
       THEN Exit(500, scratch_files)
       ELSE pc' = "check_video" /\ UNCHANGED <<diskvars, response>>
    /\ UNCHANGED <<datavars, compvars, storevars, subprocs>>
    /\ UNCHANGED concvars
    /\ UNCHANGED accessvars

\* lines 831-890: size and MP4 header of the bytes read back
CheckVideo ==
    /\ pc = "check_video"
    /\ \E valid \in BOOLEAN :
          IF valid THEN pc' = "store" /\ UNCHANGED <<diskvars, response>>
          ELSE Exit(500, scratch_files)
    /\ UNCHANGED <<datavars, compvars, storevars, subprocs>>
    /\ UNCHANGED concvars
    /\ UNCHANGED accessvars

\* lines 892-905: the file <video_id>.mp4 is written; makedirs or open may
\* raise
StoreVideo ==
    /\ pc = "store"
    /\ \E written \in BOOLEAN :
          IF written
          THEN /\ videos_dir' = videos_dir \cup {1}
               /\ pc' = "insert"
               /\ UNCHANGED <<diskvars, response>>
          ELSE /\ Exit(500, scratch_files)
               /\ UNCHANGED videos_dir
    /\ UNCHANGED <<datavars, compvars, videos_rows, project_status, subprocs>>
    /\ UNCHANGED concvars
    /\ UNCHANGED accessvars

\* lines 907-952: a failed insert is turned into a 500
InsertVideoRow ==
    /\ pc = "insert"
    /\ \E inserted \in BOOLEAN :
          IF inserted
          THEN /\ videos_rows' = videos_rows \cup {[id |-> 1, project_id |-> caller.target, status |-> "completed"]}
               /\ pc' = "update_status"
               /\ UNCHANGED <<diskvars, response>>
          ELSE /\ Exit(500, scratch_files)
               /\ UNCHANGED videos_rows
    /\ UNCHANGED <<datavars, compvars, videos_dir, project_status, subprocs>>
    /\ UNCHANGED concvars
    /\ UNCHANGED accessvars

\* lines 954-968: a failed status update is only logged
UpdateProjectStatus ==
    /\ pc = "update_status"
    /\ \E updated \in BOOLEAN :
          project_status' = IF updated THEN "video" ELSE project_status
    /\ Exit(200, scratch_files)
    /\ UNCHANGED <<datavars, compvars, videos_dir, videos_rows, subprocs>>
    /\ UNCHANGED concvars
    /\ UNCHANGED accessvars

Next ==
    \/ VerifyOwnership
    \/ CheckFfmpeg
    \/ FetchProjectData
    \/ CreateScratch
    \/ SaveAudio
    \/ GetAudioDuration
    \/ ParseTimings
    \/ SaveImages
    \/ AlignImages
    \/ CompStart
    \/ CompCopy
    \/ CompSegment
    \/ CompConcat
    \/ CompMux
    \/ CompQtFaststart
    \/ CompFfmpegFaststart
    \/ CompValidate
    \/ AfterCompile
    \/ CheckVideo
    \/ StoreVideo
    \/ InsertVideoRow
    \/ UpdateProjectStatus

Spec == InitRequest /\ [][Next]_vars

(* ---- the endpoints that read videos, lines 991-1120 ---- *)
\* the videos table with each of the ids in V stored for some project
VideoTables ==
    UNION {{{[id |-> v, project_id |-> f[v], status |-> "completed"] : v \in V} :
               f \in [V -> Projects]} : V \in SUBSET Ids}

InitRead ==
    /\ \/ /\ pc = "get_video_file"
          /\ caller \in [user : Users, endpoint : {"file"}, target : Ids]
       \/ /\ pc = "get_video_for_project"
          /\ caller \in [user : Users, endpoint : {"project"}, target : Projects]
    /\ videos_rows \in VideoTables
    /\ videos_dir \in SUBSET Ids
    /\ script_text = << >>
    /\ image_rows = << >>
    /\ audio_duration = Zero
    /\ timings = NoTimings
    /\ timings_fp = NoTimings
    /\ audio_probe = NoProbe
    /\ images = << >>
    /\ matched_images = << >>
    /\ NothingRun

InitAccess == InitRequest \/ InitRead

\* lines 991-1037: the row is looked up by id, then the ownership of its
\* project, then the file; single() on no row raises, which ends in 500,
\* or gives no data, which ends in 404
GetVideoFile ==
    /\ pc = "get_video_file"
    /\ LET rows == {row \in videos_rows : row.id = caller.target}
       IN  IF rows = {}
           THEN response' \in {404, 500} /\ UNCHANGED served
           ELSE LET video == CHOOSE row \in rows : TRUE
                IN  IF ~owned(caller.user, video.project_id)
                    THEN response' = 403 /\ UNCHANGED served
                    ELSE IF caller.target \notin videos_dir
                    THEN response' = 404 /\ UNCHANGED served
                    ELSE /\ response' = 200
                         /\ served' = [kind |-> "file", id |-> caller.target,
                                       project_id |-> video.project_id]
    /\ pc' = "done"
    /\ UNCHANGED <<datavars, compvars, diskvars, storevars, subprocs, concvars, caller>>

\* lines 1047-1109: ownership first, then the latest row of the project, or
\* None when it has none
GetVideoForProject ==
    /\ pc = "get_video_for_project"
    /\ IF ~owned(caller.user, caller.target)
       THEN response' = 403 /\ UNCHANGED served
       ELSE LET rows == {row \in videos_rows : row.project_id = caller.target}
            IN  /\ response' = 200
                /\ IF rows = {}
                   THEN served' = [kind |-> "metadata", id |-> 0, project_id |-> caller.target]
                   ELSE \E video \in rows :
                           served' = [kind |-> "metadata", id |-> video.id,
                                      project_id |-> video.project_id]
    /\ pc' = "done"
    /\ UNCHANGED <<datavars, compvars, diskvars, storevars, subprocs, concvars, caller>>

NextAccess == Next \/ GetVideoFile \/ GetVideoForProject

SpecAccess == InitAccess /\ [][NextAccess]_vars

(* ---- two concurrent compile_video requests and the paths they use ---- *)
singlevars == <<pc, datavars, compvars, diskvars, storevars, subprocs, response, accessvars>>

\* tempfile.mkdtemp (lines 189, 586) creates a directory under a name that
\* does not exist
mkdtemp_any_name(fs) == TmpNames
mkdtemp(fs) == {n \in TmpNames : ~fs[n].exists}

\* uuid.uuid4 (line 894): an identifier that was not issued before
uuid4(files) == {v \in Ids : files[v] = {}}

\* shutil.rmtree(path, ignore_errors=True) (lines 354, 361, 408, 974)
rmtree(fs, n) == [fs EXCEPT ![n] = NoDir]

\* open(path, 'wb') in directory n by request r
WriteIn(fs, n, r) == [fs EXCEPT ![n].writers = @ \cup {r}]

At(r, where) == requests[r].pc = where
Goto(r, where) == requests' = [requests EXCEPT ![r].pc = where]

InitConcurrent ==
    /\ pc = "concurrent"
    /\ script_text = << >>
    /\ audio_duration = Zero
    /\ audio_probe = NoProbe
    /\ timings = NoTimings
    /\ timings_fp = NoTimings
    /\ image_rows = << >>
    /\ images = << >>
    /\ matched_images = << >>
    /\ RequestIdle
    /\ caller = NoCaller

\* line 586
ReqMkdtemp ==
    \E r \in Requests, n \in mkdtemp(tmpfs) :
        /\ At(r, "mkdtemp")
        /\ tmpfs' = [tmpfs EXCEPT ![n] = [exists |-> TRUE, writers |-> {}]]
        /\ requests' = [requests EXCEPT ![r].pc = "save", ![r].temp_dir = n]
        /\ UNCHANGED <<singlevars, video_files>>

\* lines 589-701: the audio file and the image files are written into
\* temp_dir; an error on the way leads to the finally block
ReqSaveFiles ==
    \E r \in Requests, ok \in BOOLEAN :
        /\ At(r, "save")
        /\ IF tmpfs[requests[r].temp_dir].exists
           THEN /\ tmpfs' = WriteIn(tmpfs, requests[r].temp_dir, r)
                /\ Goto(r, IF ok THEN "comp_mkdtemp" ELSE "finally")
           ELSE /\ Goto(r, "finally")
                /\ UNCHANGED tmpfs
        /\ UNCHANGED <<singlevars, video_files>>

\* line 189
ReqCompMkdtemp ==
    \E r \in Requests, n \in mkdtemp(tmpfs) :
        /\ At(r, "comp_mkdtemp")
        /\ tmpfs' = [tmpfs EXCEPT ![n] = [exists |-> TRUE, writers |-> {}]]
        /\ requests' = [requests EXCEPT ![r].pc = "compose", ![r].comp_dir = n]
        /\ UNCHANGED <<singlevars, video_files>>

\* lines 205-321: image copies, clips, filelist.txt and video_no_audio.mp4
\* are written into the compositor's directory; a failure returns False and
\* leaves the directory
ReqCompose ==
    \E r \in Requests, ok \in BOOLEAN :
        /\ At(r, "compose")
        /\ IF tmpfs[requests[r].comp_dir].exists
           THEN /\ tmpfs' = WriteIn(tmpfs, requests[r].comp_dir, r)
                /\ Goto(r, IF ok THEN "mux" ELSE "finally")
           ELSE /\ Goto(r, "finally")
                /\ UNCHANGED tmpfs
        /\ UNCHANGED <<singlevars, video_files>>

\* lines 323-408: the mux writes output_path in the request's temp_dir; the
\* compositor's directory is removed when the mux fails (354, 361) and after
\* fast-start (408), and stays when a command times out
ReqMux ==
    \E r \in Requests, how \in {"ok", "failed", "timeout"} :
        /\ At(r, "mux")
        /\ LET out == IF tmpfs[requests[r].temp_dir].exists
                      THEN WriteIn(tmpfs, requests[r].temp_dir, r)
                      ELSE tmpfs
           IN  tmpfs' = IF how = "timeout" THEN out
                        ELSE rmtree(out, requests[r].comp_dir)
        /\ Goto(r, IF how = "ok" THEN "store" ELSE "finally")
        /\ UNCHANGED <<singlevars, video_files>>

\* lines 831-905: the output is read back and written to
\* videos/{video_id}.mp4; a failed check leads to the finally block
ReqStoreVideo ==
    \E r \in Requests :
        /\ At(r, "store")
        /\ \/ \E v \in uuid4(video_files) :
                 /\ tmpfs[requests[r].temp_dir].exists
                 /\ video_files' = [video_files EXCEPT ![v] = @ \cup {r}]
                 /\ requests' = [requests EXCEPT ![r].pc = "insert", ![r].video_id = v]
           \/ /\ Goto(r, "finally")
              /\ UNCHANGED video_files
        /\ UNCHANGED <<singlevars, tmpfs>>

\* lines 907-968: the row is inserted and the project status updated
ReqInsert ==
    \E r \in Requests :
        /\ At(r, "insert")
        /\ Goto(r, "finally")
        /\ UNCHANGED <<singlevars, tmpfs, video_files>>

\* lines 970-975
ReqFinally ==
    \E r \in Requests :
        /\ At(r, "finally")
        /\ tmpfs' = rmtree(tmpfs, requests[r].temp_dir)
        /\ Goto(r, "done")
        /\ UNCHANGED <<singlevars, video_files>>

NextConcurrent ==
    \/ ReqMkdtemp
    \/ ReqSaveFiles
    \/ ReqCompMkdtemp
    \/ ReqCompose
    \/ ReqMux
    \/ ReqStoreVideo
    \/ ReqInsert
    \/ ReqFinally

SpecConcurrent == InitConcurrent /\ [][NextConcurrent]_vars

(* ----------------------------- claims ---------------------------------- *)
RECURSIVE SumDurations(_, _)
SumDurations(s, i) ==
    IF i > Len(s) THEN Zero ELSE RAdd(s[i].duration, SumDurations(s, i + 1))

NoExplicitPolicy ==
    /\ pc = "timings_returned"
    /\ ~timings.raised
    /\ Len(timings.scenes) >= 1
    /\ ~has_timestamps(scene_content(script_text))

\* C1: with N >= 1 parsed scenes, none with an explicit start, and D > 0, the
\* intervals of the proportional or uniform policy start at 0, are
\* contiguous and their durations sum to D.
C1_Coverage ==
    NoExplicitPolicy =>
        LET s == timings.scenes
        IN  /\ s[1].start_time = Zero
            /\ \A i \in 1..(Len(s) - 1) : s[i].end_time = s[i + 1].start_time
            /\ SumDurations(s, 1) = audio_duration

\* two scenes of different narration length timed proportionally
C1_Witness ==
    /\ NoExplicitPolicy
    /\ total_words(scene_content(script_text)) > 0
    /\ Len(timings.scenes) = 2
    /\ RLess(Zero, timings.scenes[1].duration)
    /\ RLess(timings.scenes[1].duration, timings.scenes[2].duration)

\* C2: with at least one image in the image set, the alignment loop yields
\* exactly one segment per timing interval.
C2_Totality ==
    (pc = "align_done" /\ images # << >>) =>
        Len(matched_images) = Len(timings.scenes)

Lookup == images_by_scene(images)
Aligned == pc = "align_done" /\ Len(matched_images) = Len(timings.scenes)
UsedBefore(i) == {matched_images[j].image_path : j \in 1..(i - 1)}
UnusedBefore(i) == {k \in DOMAIN Lookup : Lookup[k].image_path \notin UsedBefore(i)}
Untagged(i) == timings.scenes[i].scene_number \notin DOMAIN Lookup

\* C9: an interval without an image of its own scene number borrows the
\* lowest-numbered image that no earlier interval has used, by exact match
\* or by borrowing.
C9_BorrowLowestUnused ==
    Aligned =>
        \A i \in 1..Len(matched_images) :
            (Untagged(i) /\ UnusedBefore(i) # {}) =>
                matched_images[i].image_path = Lookup[Min(UnusedBefore(i))].image_path

\* C10: an interval without an image of its own scene number, reached when
\* every image was already used, repeats the preceding segment's image.
C10_RepeatPrevious ==
    Aligned =>
        \A i \in 2..Len(matched_images) :
            (Untagged(i) /\ DOMAIN Lookup # {} /\ UnusedBefore(i) = {}) =>
                matched_images[i].image_path = matched_images[i - 1].image_path

Started(c) == \E i \in 1..Len(subprocs) : subprocs[i].cmd = c
EncodeStarted == Started("ffmpeg segment") \/ Started("ffmpeg concat") \/ Started("ffmpeg mux")

\* _parse_scene_timings has returned an empty list to compile_video
ZeroScenes ==
    /\ RLess(Zero, audio_duration)
    /\ pc # "parse"
    /\ DOMAIN scene_content(script_text) = {}

C5_TempDirRemoved ==
    success # "pending" => (comp_dir = "removed" /\ comp_files = {})

\* C6: once compile_video has created its scratch directory, the request
\* never ends with that directory still on disk.
C6_ScratchRemoved ==
    (response # 0 /\ scratch # "none") => (scratch = "removed" /\ scratch_files = {})

\* a request that failed in a segment render, with its scratch files gone
C6_Witness ==
    /\ response = 500
    /\ comp_failure.step = "segment"
    /\ scratch = "removed"

\* C7: after a segment render, concat or mux that exited non-zero or timed
\* out, the request ends with an error and no video is stored or recorded.
C7_CompositionErrorFatal ==
    (comp_failure.step \in {"segment", "concat", "mux"}
        /\ comp_failure.how \in {"nonzero", "timeout"}) =>
        /\ pc \in {"after_compile", "done"}
        /\ response \in {0, 500}
        /\ videos_dir = {}
        /\ videos_rows = {}

\* a mux of two segments that timed out, answered with 500
C7_Witness ==
    /\ comp_failure = [step |-> "mux", how |-> "timeout"]
    /\ response = 500
    /\ Len(segments) >= 2

\* C8: after a successful mux no outcome of the fast-start step makes the
\* composition fail; validation is still reached.
C8_FaststartSoft ==
    faststart.qt # "none" =>
        /\ comp_failure.step # "faststart"
        /\ (pc = "after_compile" => probe_rc # "none")

\* the rows of images_result.data that carry image data and scene number k
Carriers(k) ==
    {j \in 1..Len(image_rows) : image_rows[j].has_data /\ image_rows[j].scene_number = k}

C12_WellFormedIntervals ==
    (pc = "timings_returned" /\ ~timings.raised) =>
        \A i \in 1..Len(timings.scenes) :
            LET t == timings.scenes[i]
            IN  /\ RLeq(Zero, t.start_time)
                /\ RLess(t.start_time, t.end_time)
                /\ t.duration = RSub(t.end_time, t.start_time)

ProportionalPolicy ==
    /\ pc = "timings_returned"
    /\ ~has_timestamps(scene_content(script_text))
    /\ total_words(scene_content(script_text)) > 0

\* C13: under the proportional policy the last interval's end_time is
\* audio_duration itself; the rounding of the per-scene durations and of
\* their running sum leaves no residue between the two.
C13_LastEndIsDuration ==
    ProportionalPolicy =>
        timings_fp.scenes[Len(timings_fp.scenes)].end_time = audio_duration

\* the script as written: the lines that are markers, the last marker of
\* scene k, and the words of the narration lines that follow it up to the
\* next marker
MarkerLines == {i \in 1..Len(script_text) : script_text[i].kind = "marker"}
MarkedNumbers == {script_text[i].num : i \in MarkerLines}
LastMarker(k) ==
    CHOOSE i \in MarkerLines :
        /\ script_text[i].num = k
        /\ \A j \in MarkerLines : script_text[j].num = k => j <= i
SceneEnd(i) ==
    IF \E j \in MarkerLines : j > i
    THEN Min({j \in MarkerLines : j > i}) - 1
    ELSE Len(script_text)

RECURSIVE WordsBetween(_, _)
WordsBetween(a, b) ==
    IF a > b THEN 0 ELSE script_text[a].words + WordsBetween(a + 1, b)

AuthoredWords(k) == WordsBetween(LastMarker(k) + 1, SceneEnd(LastMarker(k)))

RECURSIVE AuthoredTotal(_)
AuthoredTotal(S) ==
    IF S = {} THEN 0 ELSE AuthoredWords(Min(S)) + AuthoredTotal(S \ {Min(S)})

\* C14: when no scene has an explicit start, a scene of w words out of a
\* total of T > 0 words lasts audio_duration * (w / T), and when T = 0 each
\* of the N scenes lasts audio_duration / N.
C14_PolicySelection ==
    NoExplicitPolicy =>
        LET s == timings.scenes
            T == AuthoredTotal(MarkedNumbers)
        IN  \A i \in 1..Len(s) :
                s[i].duration =
                    IF T > 0
                    THEN RMul(audio_duration, Rat(AuthoredWords(s[i].scene_number), T))
                    ELSE RMul(audio_duration, Rat(1, Len(s)))

\* scenes of 10, 20 and 10 words with 40 s of audio: [0,10), [10,30), [30,40)
C14_Witness ==
    /\ pc = "timings_returned"
    /\ audio_duration = Int2R(40)
    /\ [i \in 1..Len(timings.scenes) |->
           <<timings.scenes[i].start_time, timings.scenes[i].end_time>>]
         = << <<Int2R(0), Int2R(10)>>, <<Int2R(10), Int2R(30)>>, <<Int2R(30), Int2R(40)>> >>

\* C15: whenever at least one scene carries an explicit start,
\* _parse_scene_timings returns normally with one interval for every scene,
\* also when other scenes of the script have no time range.
C15_MixedNeverRaises ==
    (pc = "timings_returned" /\ has_timestamps(scene_content(script_text))) =>
        /\ ~timings.raised
        /\ {timings.scenes[i].scene_number : i \in 1..Len(timings.scenes)} = MarkedNumbers

\* a side of a time range that reads M:SS, and the seconds it stands for
WellFormed(parts) == Len(parts) = 2 /\ parts[1] # Empty /\ parts[2] # Empty
AuthoredTime(parts) == Int2R(parts[1] * 60 + parts[2])

ExplicitPolicy ==
    /\ pc = "timings_returned"
    /\ ~timings.raised
    /\ has_timestamps(scene_content(script_text))

\* C16: under the explicit policy the interval of a scene written with a
\* start and an end is exactly that start and end, whatever the other scenes
\* and audio_duration are: gaps, overlaps and ends beyond audio_duration stay.
C16_AuthoredRangeKept ==
    ExplicitPolicy =>
        \A i \in 1..Len(timings.scenes) :
            LET t == timings.scenes[i]
                m == script_text[LastMarker(t.scene_number)]
            IN  (WellFormed(m.start_str) /\ WellFormed(m.end_str)) =>
                    /\ t.start_time = AuthoredTime(m.start_str)
                    /\ t.end_time = AuthoredTime(m.end_str)
                    /\ t.duration = RSub(t.end_time, t.start_time)

\* "Scene 1 (0:00-0:10)", "Scene 2 (0:10-0:25)" with 30 s of audio:
\* [0,10) and [10,25), the last 5 s are left uncovered
C16_Witness ==
    /\ ExplicitPolicy
    /\ audio_duration = Int2R(30)
    /\ [i \in 1..Len(timings.scenes) |->
           <<timings.scenes[i].start_time, timings.scenes[i].end_time>>]
         = << <<Int2R(0), Int2R(10)>>, <<Int2R(10), Int2R(25)>> >>

\* C17: under the explicit policy a scene written with a start but without
\* a usable end ends at the explicit start of the next scene in scene
\* number order, and at audio_duration when it is the last scene.
C17_MissingEndFilled ==
    ExplicitPolicy =>
        \A i \in 1..Len(timings.scenes) :
            LET t == timings.scenes[i]
                m == script_text[LastMarker(t.scene_number)]
            IN  (WellFormed(m.start_str) /\ ~WellFormed(m.end_str)) =>
                    t.end_time =
                        IF i < Len(timings.scenes)
                        THEN AuthoredTime(
                               script_text[LastMarker(timings.scenes[i + 1].scene_number)].start_str)
                        ELSE audio_duration

\* "Scene 1 (0:10-0:)", "Scene 2 (0:25-0:)" with 30 s of audio: [10,25), [25,30)
C17_Witness ==
    /\ ExplicitPolicy
    /\ \A i \in 1..Len(timings.scenes) :
          ~WellFormed(script_text[LastMarker(timings.scenes[i].scene_number)].end_str)
    /\ [i \in 1..Len(timings.scenes) |->
           <<timings.scenes[i].start_time, timings.scenes[i].end_time>>]
         = << <<Int2R(10), Int2R(25)>>, <<Int2R(25), Int2R(30)>> >>

\* a marker whose parenthesised range has a side that does not read M:SS
Malformed(line) ==
    /\ line.kind = "marker"
    /\ line.start_str # Absent
    /\ ~(WellFormed(line.start_str) /\ WellFormed(line.end_str))

\* the script with every malformed range taken off its marker
WithoutMalformed ==
    [i \in 1..Len(script_text) |->
        IF Malformed(script_text[i])
        THEN Marker(script_text[i].num, Absent, Absent)
        ELSE script_text[i]]

\* C18: a marker with a malformed range is read as a marker without a time
\* range, start and end both absent, and the call returns without an error.
C18_MalformedRangeIgnored ==
    (pc = "timings_returned" /\ \E i \in 1..Len(script_text) : Malformed(script_text[i])) =>
        /\ ~timings.raised
        /\ timings = parse_scene_timings(WithoutMalformed, audio_duration)

Returned == pc = "timings_returned" /\ ~timings.raised

Ascending ==
    \A i \in 1..(Len(timings.scenes) - 1) :
        timings.scenes[i].scene_number < timings.scenes[i + 1].scene_number

\* the marker a line belongs to (0 before the first marker), and the script
\* without the markers, and their narration, that a later marker of the same
\* number follows
Owner(i) ==
    LET before == {j \in MarkerLines : j <= i}
    IN  IF before = {} THEN 0 ELSE CHOOSE j \in before : \A l \in before : l <= j

RECURSIVE LastOfEachNumber(_)
LastOfEachNumber(i) ==
    IF i > Len(script_text) THEN << >>
    ELSE (IF Owner(i) = 0 \/ Owner(i) = LastMarker(script_text[Owner(i)].num)
          THEN <<script_text[i]>> ELSE << >>)
         \o LastOfEachNumber(i + 1)

\* C19 (as claimed): the intervals are in strictly ascending scene number
\* order and there is exactly one interval per marker of the script, also
\* when two markers carry the same number.
C19_OnePerMarker ==
    Returned =>
        /\ Ascending
        /\ Len(timings.scenes) = Cardinality(MarkerLines)

\* C19 (amended): the intervals are in strictly ascending scene number order
\* and there is exactly one interval per distinct scene number; of two
\* markers with the same number only the later one and its narration count.
C19_OnePerNumber ==
    Returned =>
        /\ Ascending
        /\ {timings.scenes[i].scene_number : i \in 1..Len(timings.scenes)} = MarkedNumbers
        /\ timings = parse_scene_timings(LastOfEachNumber(1), audio_duration)

\* two markers of one number, the first with narration and the second
\* without: a single interval that spans the audio
C19_Witness ==
    /\ Returned
    /\ Cardinality(MarkerLines) = 2
    /\ Cardinality(MarkedNumbers) = 1
    /\ \E i \in MarkerLines : i # LastMarker(script_text[i].num) /\ SceneEnd(i) > i
    /\ AuthoredTotal(MarkedNumbers) = 0
    /\ Len(timings.scenes) = 1
    /\ timings.scenes[1].duration = audio_duration

\* the ffprobe run on the audio file gave no positive duration
ProbeFailed ==
    \/ audio_probe.how \in {"nonzero", "timeout", "missing", "unparseable"}
    \/ audio_probe.how = "printed" /\ RLeq(audio_probe.out, Zero)

\* the request was answered with 400 and neither scene timing, nor image
\* processing and alignment, nor the compositor and its ffmpeg runs started
EndedBeforeTiming ==
    /\ pc = "done"
    /\ response = 400
    /\ timings = NoTimings
    /\ images = << >>
    /\ matched_images = << >>
    /\ comp_dir = "none"
    /\ ~EncodeStarted

\* C20 (as claimed): when ffprobe exits non-zero, times out, is missing,
\* prints something unparseable or prints a value <= 0, _get_audio_duration
\* returns 0.0 and compile_video ends with an error before scene timing,
\* image alignment and any ffmpeg encoding.
C20_ProbeFailureZero ==
    ProbeFailed => (audio_duration = Zero /\ EndedBeforeTiming)

\* C20 (amended): _get_audio_duration returns 0.0 when ffprobe exits
\* non-zero, times out, is missing or prints something unparseable, and the
\* printed value itself when that value is <= 0; in each case compile_video
\* ends with 400 before scene timing, image alignment and any ffmpeg encoding.
C20_ProbeFailureFatal ==
    ProbeFailed =>
        /\ audio_duration = (IF audio_probe.how = "printed" THEN audio_probe.out ELSE Zero)
        /\ RLeq(audio_duration, Zero)
        /\ EndedBeforeTiming

\* ffprobe printed a negative duration: it is returned as printed and the
\* request ends with 400, its scratch directory removed
C20_Witness ==
    /\ audio_probe.how = "printed"
    /\ RLess(audio_probe.out, Zero)
    /\ audio_duration = audio_probe.out
    /\ response = 400
    /\ scratch = "removed"

\* the project has no image row, or no image row carries image data
NoUsableImage == \A i \in 1..Len(image_rows) : ~image_rows[i].has_data

\* C21: without a usable image compile_video ends with an error, starts no
\* segment render, concat or mux, and stores nothing.
C21_NoImageFailFast ==
    NoUsableImage =>
        /\ ~EncodeStarted
        /\ response \in {0, 400, 403, 500, 503}
        /\ (pc = "after_compile" => compile_failed(success, OutputFile \in scratch_files))
        /\ videos_dir = {}
        /\ videos_rows = {}

\* image rows without data and a script with scenes: the compositor got an
\* empty list, raised before any ffmpeg run, and the request ended with 500
C21_Witness ==
    /\ image_rows # << >>
    /\ NoUsableImage
    /\ timings.scenes # << >>
    /\ comp_failure = [step |-> "images", how |-> "raised"]
    /\ response = 500

\* the files of one kind that a directory holds
FilesNamed(dir, kind) == {f \in dir : f.f = kind}

\* C22: within one compilation no two segments are written to the same
\* scratch file name: every processed image row has a file of its own, and
\* so have the image copy and the clip of every segment, also when two
\* segments show the same source image or carry the same scene number.
C22_DistinctScratchNames ==
    /\ pc = "match" => Cardinality(FilesNamed(scratch_files, "img")) = Len(images)
    /\ pc \in {"comp_segment", "comp_concat"} =>
          Cardinality(FilesNamed(comp_files, "img_copy")) = Len(segments)
    /\ pc = "comp_segment" =>
          Cardinality(FilesNamed(comp_files, "segment")) = seg_i - 1
    /\ pc = "comp_concat" =>
          Cardinality(FilesNamed(comp_files, "segment")) = Len(segments)

\* two segments that show the same source image, both copied and rendered
C22_Witness ==
    /\ pc = "comp_concat"
    /\ Len(segments) = 2
    /\ segments[1].image_path = segments[2].image_path
    /\ segments[1].scene_number # segments[2].scene_number
    /\ Cardinality(FilesNamed(comp_files, "img_copy")) = 2
    /\ Cardinality(FilesNamed(comp_files, "segment")) = 2

\* the segment renders started so far
SegmentRuns == {j \in 1..Len(subprocs) : subprocs[j].cmd = "ffmpeg segment"}

\* C23 (as claimed): the fade-out start of every segment is never negative,
\* the fade-out ends exactly at the clip's duration, and it starts at 0 for
\* every segment shorter than twice the fade length.
C23_FadeOutWithinClip ==
    \A j \in SegmentRuns :
        LET c == subprocs[j]
        IN  /\ RLeq(Zero, c.fade_st)
            /\ RAdd(c.fade_st, fade_duration) = c.t
            /\ (RLess(c.t, RMul(Int2R(2), fade_duration)) => c.fade_st = Zero)

\* C23 (amended): the fade-out start of every segment is never negative; it
\* is 0 for a segment not longer than the fade length, and otherwise the
\* fade-out ends exactly at the clip's duration.
C23_FadeOutClamped ==
    \A j \in SegmentRuns :
        LET c == subprocs[j]
        IN  /\ RLeq(Zero, c.fade_st)
            /\ (RLeq(c.t, fade_duration) => c.fade_st = Zero)
            /\ (RLeq(fade_duration, c.t) => RAdd(c.fade_st, fade_duration) = c.t)

\* a clip of 0.375 s whose fade-out starts at 0, rendered after one of the
\* same length
C23_Witness ==
    \E j \in SegmentRuns :
        /\ subprocs[j].i = 2
        /\ subprocs[j].t = Rat(3, 8)
        /\ subprocs[j].fade_st = Zero

\* the image rows with the hashes h in place of their own
Rehashed(h) == [i \in 1..Len(image_rows) |-> [image_rows[i] EXCEPT !.hash = h[i]]]

\* a run of the alignment step on the rows with hashes h, and the image
\* each interval is assigned by a list of segments
Rerun(h) ==
    matched_images_of(timings.scenes,
        images_with_scenes(Rehashed(h), timings.scenes, audio_duration))
Assignment(list) ==
    [i \in 1..Len(list) |-> <<list[i].scene_number, list[i].image_path>>]

\* C24: a second run of the alignment step on the same intervals and on image
\* rows with the same tags in the same order gives every interval the same
\* image as the first run, whatever the content hashes of the rows are.
C24_AlignmentDeterministic ==
    pc = "align_done" =>
        \A h \in [1..Len(image_rows) -> Hashes] :
            Assignment(Rerun(h)) = Assignment(matched_images)

\* three intervals aligned with two images of the same tag and of different
\* content: the first image is matched once and repeated
C24_Witness ==
    /\ pc = "align_done"
    /\ Len(matched_images) = 3
    /\ Len(images) = 2
    /\ images[1].scene_number = images[2].scene_number
    /\ images[1].hash # images[2].hash
    /\ \A i \in 1..3 : matched_images[i].image_path = images[1].image_path

\* the commands the compositor has started, in order, and the order of a
\* whole composition of n clips with or without the ffmpeg fast-start run
CompositorCmds ==
    {"ffmpeg segment", "ffmpeg concat", "ffmpeg mux", "qt-faststart",
     "ffmpeg faststart", "ffprobe video"}
IsCompositorCmd(c) == c.cmd \in CompositorCmds
CompositorRun == SelectSeq(subprocs, IsCompositorCmd)
StepOrder(n, ff) ==
    [i \in 1..n |-> <<"ffmpeg segment", i>>]
        \o << <<"ffmpeg concat", 0>>, <<"ffmpeg mux", 0>>, <<"qt-faststart", 0>> >>
        \o (IF ff THEN << <<"ffmpeg faststart", 0>> >> ELSE << >>)
        \o << <<"ffprobe video", 0>> >>
IsPrefix(s, t) == Len(s) <= Len(t) /\ \A i \in 1..Len(s) : s[i] = t[i]
LastStep == CompositorRun[Len(CompositorRun)].cmd
FailedStep(step) == comp_failure.step = step

\* C25: the compositor's commands start in one order: the segment renders
\* 1..n in the order of the list sorted by scene number, then concat, mux,
\* qt-faststart, the ffmpeg fast-start run if there is one, and ffprobe.
\* No command is started after a segment render, the concat or the mux
\* failed; the concat run finds every clip on disk and lists the clips in
\* the order they were rendered.
C25_StepsOrdered ==
    /\ \E ff \in BOOLEAN :
          IsPrefix([i \in 1..Len(CompositorRun) |->
                       <<CompositorRun[i].cmd, CompositorRun[i].i>>],
                   StepOrder(Len(sorted_images), ff))
    /\ \A i \in 1..Len(CompositorRun) :
          CompositorRun[i].cmd = "ffmpeg segment" =>
              CompositorRun[i].t = sorted_images[i].duration
    /\ \A i \in 1..Len(sorted_images), j \in 1..Len(sorted_images) :
          i < j => sorted_images[i].scene_number <= sorted_images[j].scene_number
    /\ FailedStep("segment") => LastStep = "ffmpeg segment"
    /\ FailedStep("concat") => LastStep = "ffmpeg concat"
    /\ FailedStep("mux") => LastStep = "ffmpeg mux"
    /\ \A i \in 1..Len(CompositorRun) :
          CompositorRun[i].cmd = "ffmpeg concat" =>
              /\ i = Len(sorted_images) + 1
              /\ CompositorRun[i].files = [k \in 1..(i - 1) |-> SegmentFile(CompositorRun[k].i)]
              /\ comp_dir = "exists" =>
                    \A k \in 1..(i - 1) : SegmentFile(k) \in comp_files

\* a composition of two clips that ran every step, the ffmpeg fast-start
\* run included
C25_Witness ==
    /\ success = "true"
    /\ Len(sorted_images) = 2
    /\ Len(CompositorRun) = 7
    /\ CompositorRun[3].files = <<SegmentFile(1), SegmentFile(2)>>
    /\ CompositorRun[6].cmd = "ffmpeg faststart"

\* the directories a request has created and not yet finished with
NeedsTemp(r) == requests[r].pc \in {"save", "comp_mkdtemp", "compose", "mux", "store", "insert", "finally"}
NeedsComp(r) == requests[r].pc \in {"compose", "mux"}
Needed(r) ==
    (IF NeedsTemp(r) THEN {requests[r].temp_dir} ELSE {})
        \cup (IF NeedsComp(r) THEN {requests[r].comp_dir} ELSE {})

\* C26: in every interleaving of two requests no temporary directory and no
\* stored video file has been written by both, the directories the two
\* requests need are different, and every directory a request still needs
\* exists whatever the other request has removed.
C26_RequestsIsolated ==
    /\ \A n \in TmpNames : Cardinality(tmpfs[n].writers) <= 1
    /\ \A v \in Ids : Cardinality(video_files[v]) <= 1
    /\ \A r \in Requests : \A n \in Needed(r) :
          tmpfs[n].exists /\ tmpfs[n].writers \subseteq {r}
    /\ \A r \in Requests, q \in Requests :
          r # q => Needed(r) \cap Needed(q) = {}
    /\ \A r \in Requests, q \in Requests :
          (r # q /\ requests[r].video_id # 0) =>
              requests[r].video_id # requests[q].video_id

\* request A has removed its directories and stored its video while request
\* B is composing in a directory whose name A's compositor used before
C26_Witness ==
    /\ requests["A"].pc = "done"
    /\ requests["A"].video_id # 0
    /\ requests["B"].pc = "mux"
    /\ requests["B"].comp_dir = requests["A"].comp_dir
    /\ tmpfs[requests["B"].comp_dir].writers = {"B"}

\* the alignment step of the request matched at least one image
AlignedRequest == matched_images # << >>

\* C27: when images were matched, segment i carries the scene number, the
\* start_time and the duration of timing interval i, the compositor's sort
\* by scene_number leaves the list as it is, and clip i is rendered with
\* the duration of interval i.
C27_SegmentsCarryIntervals ==
    AlignedRequest =>
        /\ Len(matched_images) = Len(timings.scenes)
        /\ \A i \in 1..Len(matched_images) :
              /\ matched_images[i].scene_number = timings.scenes[i].scene_number
              /\ matched_images[i].start_time = timings.scenes[i].start_time
              /\ matched_images[i].duration = timings.scenes[i].duration
        /\ sorted_images = matched_images
        /\ \A j \in SegmentRuns :
              subprocs[j].t = timings.scenes[subprocs[j].i].duration

\* two intervals and one image tagged with the second: the first clip shows
\* that image for the first interval, whose start is not the image's own
C27_Witness ==
    /\ AlignedRequest
    /\ Len(timings.scenes) = 2
    /\ Len(images) = 1
    /\ images[1].scene_number = 2
    /\ images[1].start_time # Zero
    /\ matched_images[1].image_path = images[1].image_path
    /\ matched_images[1].start_time = Zero
    /\ \E j \in SegmentRuns : subprocs[j].i = 2

\* the alignment step matched nothing and left images to compile
Unaligned ==
    /\ pc \in {"comp_start", "comp_copy", "comp_segment", "comp_concat", "comp_mux",
               "comp_qt", "comp_ff", "comp_validate", "after_compile"}
    /\ matched_images = << >>
    /\ images # << >>

\* C28: when no image was matched, the list handed to the compositor is the
\* unaligned image list and its durations add up to audio_duration, also
\* when rows without image data were skipped.
C28_FallbackCoversAudio ==
    Unaligned =>
        /\ segments = images
        /\ SumDurations(segments, 1) = audio_duration

\* compile_video has answered with an error status
EndedWithError == pc = "done" /\ response \notin {0, 200}

\* C29: a request that ended with an error has left no file in the videos
\* directory and no row in the videos table; a row with status 'completed'
\* has its stored file; the project status is 'video' only when the row was
\* inserted, and a failed status update still ends the request with 200.
C29_ErrorLeavesNothing ==
    /\ EndedWithError => (videos_dir = {} /\ videos_rows = {})
    /\ \A row \in videos_rows : row.status = "completed" => row.id \in videos_dir
    /\ project_status = "video" => videos_rows # {}
    /\ (pc = "done" /\ videos_rows # {}) => response = 200

\* the project a request is about: the project named in it, or the project
\* of the video named in it
ProjectsAskedFor ==
    IF caller.endpoint = "file"
    THEN {row.project_id : row \in {v \in videos_rows : v.id = caller.target}}
    ELSE {caller.target}
NotOwner == \A p \in ProjectsAskedFor : projects_table[p] # caller.user

\* C30: a compile_video request by a user who does not own the project ends
\* with 403 before any subprocess was started, any scratch directory was
\* created or any row or file was written; get_video_file and
\* get_video_for_project put a video or its metadata in the reply only
\* when the requesting user owns the project it belongs to.
C30_OwnerOnly ==
    /\ (caller.endpoint = "compile" /\ NotOwner) =>
          /\ response \in {0, 403}
          /\ subprocs = << >>
          /\ scratch = "none" /\ scratch_files = {}
          /\ comp_dir = "none" /\ comp_files = {}
          /\ videos_dir = {} /\ videos_rows = {}
          /\ project_status = "images"
    /\ served # Nothing => projects_table[served.project_id] = caller.user
    /\ (caller.endpoint \in {"file", "project"} /\ NotOwner) => served = Nothing

\* the video named in a get_video_file request exists with its file, its
\* project belongs to the other user, and the reply is 403 without a video
C30_Witness ==
    /\ pc = "done"
    /\ caller.endpoint = "file"
    /\ caller.target \in videos_dir
    /\ ProjectsAskedFor # {}
    /\ NotOwner
    /\ response = 403
    /\ served = Nothing

====
